---- MODULE Spec2Model ----
(***************************************************************************)
(* Headerlet management of stwcs.wcsutil.headerlet: one science container  *)
(* (a FITS HDUList) with its primary header, its SCI extensions, the       *)
(* WCSCORR provenance table and the HeaderletHDU archive entries, and the  *)
(* operations attach_to_file, apply_as_primary, apply_as_alternate,        *)
(* write_headerlet, archive_as_headerlet, restore_from_headerlet and       *)
(* delete_headerlet acting on it.                                          *)
(*                                                                         *)
(* Python indices: fobj[0] is the PRIMARY HDU, fobj[1..NumSci] are the SCI *)
(* extensions, fobj[NumSci + i] is element i of fobj.hdus.                 *)
(* Headerlets handed to the operations carry one SIPWCS part per SCI       *)
(* extension with SCIEXT written as create_headerlet writes it for a named *)
(* extension ("SCI, n").                                                   *)
(***************************************************************************)
EXTENDS Integers, Sequences, FiniteSets, TLC

\* ------------------------------------------------------------------ bounds
NumSci == 2     \* SCI extensions of the container
MaxHdus == 3    \* extensions after the SCI extensions (WCSCORR + entries)
MaxAlts == 2    \* alternate WCS keys in use on one extension
MaxCalls == 3   \* calls made on the container

\* ---------------------------------------------------------- value domains
NONE == "NONE"                       \* Python None / keyword not in header
Models == {"M1", "M2"}               \* DISTNAME values
Rootname == "R1"                     \* ROOTNAME of the container
SciExts == 1..NumSci

\* Outcome of a call: exc is the exception that left the call ("none" when
\* it returned), log the refusal it only reported through logger.critical.
NoExc == "none"
NoLog == "none"

\* the headerlet field of an extension that is no HeaderletHDU
NoHlet ==
    [hdrname |-> NONE, wcsname |-> NONE, destim |-> NONE, distname |-> NONE,
     upwcsver |-> FALSE, sipwcs |-> <<>>]

\* ----------------------------------------------------------------- helpers
Range(s) == {s[i] : i \in DOMAIN s}

RECURSIVE SetToSeq(_)
SetToSeq(S) ==
    IF S = {} THEN <<>>
    ELSE LET x == CHOOSE y \in S : \A z \in S : y <= z
         IN <<x>> \o SetToSeq(S \ {x})

DelAt(s, i) == [j \in 1..(Len(s) - 1) |-> IF j < i THEN s[j] ELSE s[j + 1]]

\* ------------------------------------------------------- altwcs (allocator)
Alphabet ==
    <<"A", "B", "C", "D", "E", "F", "G", "H", "I", "J", "K", "L", "M",
      "N", "O", "P", "Q", "R", "S", "T", "U", "V", "W", "X", "Y", "Z">>
ReservedKey == "O"

\* altwcs.wcskeys(header): the alternate keys in use on one extension
wcskeys(ext) == {ext.alts[i].key : i \in DOMAIN ext.alts}

\* altwcs.available_wcskeys(header): the alphabet minus the reserved symbol
\* and minus the keys in use, in alphabetical order
available_wcskeys(ext) ==
    SelectSeq(Alphabet, LAMBDA k : k # ReservedKey /\ k \notin wcskeys(ext))

\* altwcs.next_wcskey(header): smallest free key, NONE standing for the
\* SlotExhausted failure
next_wcskey(ext) ==
    IF available_wcskeys(ext) = <<>> THEN NONE
    ELSE Head(available_wcskeys(ext))

\* altwcs.wcsnames(header): WCSNAME of the primary and of every alternate
wcsnames(ext) ==
    (IF ext.wcsname = NONE THEN {} ELSE {ext.wcsname})
        \cup {ext.alts[i].name : i \in DOMAIN ext.alts}

\* the first card group stored under an alternate key (header order)
AltCard(ext, key) ==
    ext.alts[CHOOSE i \in DOMAIN ext.alts :
                /\ ext.alts[i].key = key
                /\ \A j \in 1..(i - 1) : ext.alts[j].key # key]

\* header[kw + wcskey] for kw WCSNAME / HDRNAME, NONE when not in the header
KwWcsname(ext, wcskey) ==
    IF wcskey = " " THEN ext.wcsname
    ELSE IF wcskey \in wcskeys(ext) THEN AltCard(ext, wcskey).name ELSE NONE

KwHdrname(ext, wcskey) ==
    IF wcskey = " " THEN ext.hdrname
    ELSE IF wcskey \in wcskeys(ext) THEN AltCard(ext, wcskey).hdrname
    ELSE NONE

\* the linear transform stored under a key of an extension
KwLin(ext, wcskey) ==
    IF wcskey = " " THEN ext.lin ELSE AltCard(ext, wcskey).lin

\* ------------------------------------------------------ container queries
\* tail positions (1-based in fobj.hdus) of the HeaderletHDU extensions
HdrletPos(fobj) == {i \in DOMAIN fobj.hdus : fobj.hdus[i].extname = "HDRLET"}

\* countExtn(fobj, 'HDRLET')
countExtn(fobj, extname) ==
    Cardinality({i \in DOMAIN fobj.hdus : fobj.hdus[i].extname = extname})

\* get_headerlet_kw_names(fobj): HDRNAME of every HeaderletHDU, file order
get_headerlet_kw_names(fobj) ==
    [i \in 1..Cardinality(HdrletPos(fobj)) |->
        fobj.hdus[SetToSeq(HdrletPos(fobj))[i]].hlet.hdrname]

verify_hdrname_is_unique(fobj, hdrname) ==
    hdrname \notin Range(get_headerlet_kw_names(fobj))

\* ------------------------------------------------------- Headerlet methods
\* a variant that accepts every headerlet
mut_hverify(h) == TRUE

\* header[kw].strip() of a keyword that is absent or blank
Stripped(x) == x \in {NONE, "", " "}

\* Headerlet.hverify: the three assertions on the primary header
hverify(h) ==
    /\ ~Stripped(h.destim)
    /\ ~Stripped(h.hdrname)
    /\ h.upwcsver

\* Headerlet.verify_dest: DESTIM against ROOTNAME of the destination
verify_dest(h, fobj) == fobj.phdr.rootname = h.destim

\* dest.split('.fits')[0] for the file names used
FileNames == {"R1.fits", "R2.fits"}
FileRoot(fname) == IF fname = "R1.fits" THEN "R1" ELSE "R2"

\* Headerlet.verify_dest(dest) for either kind of destination, rootname
\* being the ROOTNAME of its primary header (NONE when absent): [exc, val].
\* Without ROOTNAME the KeyError handler calls dest.split, which only a
\* file name has.
verify_dest_any(h, byName, fname, rootname) ==
    IF rootname # NONE THEN [exc |-> NoExc, val |-> rootname = h.destim]
    ELSE IF byName
    THEN [exc |-> NoExc, val |-> FileRoot(fname) = h.destim]
    ELSE [exc |-> "AttributeError", val |-> FALSE]

\* a variant that finds every HDRNAME unique
mut_verify_hdrname(h, fobj) == TRUE

\* Headerlet.verify_hdrname
verify_hdrname(h, fobj) == verify_hdrname_is_unique(fobj, h.hdrname)

\* ------------------------------------------------------ wcscorr (provenance)
\* rows update_wcscorr adds for a headerlet: one per SIPWCS part
HletRows(h, wcs_id, active) ==
    {[extver |-> h.sipwcs[i].extver, name |-> wcs_id, hdrname |-> h.hdrname,
      distname |-> h.distname, active |-> active] : i \in DOMAIN h.sipwcs}

\* wcscorr.init_wcscorr(fobj): create the table, with the WCSs found in the
\* SCI headers, when the container has none
init_wcscorr(fobj) ==
    IF countExtn(fobj, "WCSCORR") > 0 THEN fobj
    ELSE [fobj EXCEPT
            !.hdus = Append(@, [extname |-> "WCSCORR", extver |-> 1,
                                hlet |-> NoHlet]),
            !.wcscorr = {[extver |-> e, name |-> fobj.sci[e].wcsname,
                          hdrname |-> fobj.sci[e].hdrname,
                          distname |-> fobj.phdr.distname,
                          active |-> TRUE] : e \in SciExts}]

mut_update_wcscorr(fobj, h, wcs_id, active) == init_wcscorr(fobj)

\* wcscorr.update_wcscorr(fobj, source, 'SIPWCS', wcs_id, active): appends
\* the rows of the headerlet to the table, creating the table when needed
update_wcscorr(fobj, h, wcs_id, active) ==
    [init_wcscorr(fobj) EXCEPT !.wcscorr = @ \cup HletRows(h, wcs_id, active)]

\* wcscorr.delete_wcscorr_row(table, selections)
delete_wcscorr_row(fobj, kw, val) ==
    [fobj EXCEPT !.wcscorr =
        {r \in @ : IF kw = "hdrname" THEN r.hdrname # val
                   ELSE r.distname # val}]

\* HeaderletHDU.fromheaderlet(h) with EXTVER set by the caller
HeaderletHDU(h, extver) ==
    [extname |-> "HDRLET", extver |-> extver, hlet |-> h]

\* ------------------------------------------------------- create_headerlet
Falsy(x) == x \in {NONE, ""}                       \* Python "not x"
Blank(x) == x \in {"", " ", NONE, "INDEF"}

\* utils.build_distname over the three component names of the container
build_distname(fobj) == fobj.phdr.refs

\* utils.build_sipname, build_npolname, build_d2imname(fobj): the name the
\* container gives the component; 'UNKNOWN' is the name of a component that
\* is present without a recoverable name, 'NOMODEL' that of an absent one
ComponentName(c) == IF c = NONE THEN "NOMODEL" ELSE c
build_sipname(fobj) == ComponentName(fobj.sci[1].sip)
build_npolname(fobj) == ComponentName(fobj.sci[1].lut)
build_d2imname(fobj) == ComponentName(fobj.sci[1].d2im)

\* utils.build_distname(sipname, npolfile, d2imfile): the three names joined
DistnameOf(sipname, npolfile, d2imfile) ==
    [sip |-> sipname, npol |-> npolfile, d2im |-> d2imfile]

\* a variant that always takes the SIP name from the container
mut_create_distname(fobj, sipname, npolfile, d2imfile) ==
    DistnameOf(build_sipname(fobj),
               IF Falsy(npolfile) THEN build_npolname(fobj) ELSE npolfile,
               IF Falsy(d2imfile) THEN build_d2imname(fobj) ELSE d2imfile)

\* create_headerlet(..., sipname, npolfile, d2imfile): the DISTNAME of the
\* headerlet; `not name` sends None and '' to the container's own name
create_distname(fobj, sipname, npolfile, d2imfile) ==
    DistnameOf(IF Falsy(sipname) THEN build_sipname(fobj) ELSE sipname,
               IF Falsy(npolfile) THEN build_npolname(fobj) ELSE npolfile,
               IF Falsy(d2imfile) THEN build_d2imname(fobj) ELSE d2imfile)

\* create_headerlet(..., destim=None): DESTIM is ROOTNAME of the primary
\* header (rootname, NONE when absent), else the file name
create_destim(rootname, fname) == IF rootname # NONE THEN rootname ELSE fname

\* the SIPWCS parts create_headerlet builds: one per SCI extension that
\* carries wcskey
SipwcsParts(fobj, wcskey) ==
    LET exts == SetToSeq({e \in SciExts :
                    wcskey = " " \/ wcskey \in wcskeys(fobj.sci[e])})
    IN [i \in DOMAIN exts |->
          [extver |-> exts[i],
           lin |-> KwLin(fobj.sci[exts[i]], wcskey),
           wcsname |-> KwWcsname(fobj.sci[exts[i]], wcskey)]]

\* a variant that takes a missing HDRNAME from the HDRNAME keyword only
mut_create_headerlet(fobj, hdrname0, wcskey0, wcsname0) ==
    IF wcskey0 = NONE
    THEN [exc |-> "AttributeError", hlet |-> NoHlet]
    ELSE
    LET wcskey == IF wcskey0 = "PRIMARY" THEN " " ELSE wcskey0
        hdr == fobj.sci[1]
        wcsnamekw == KwWcsname(hdr, wcskey)
        hdrnamekw == KwHdrname(hdr, wcskey)
        wcsname ==
            IF Falsy(wcsname0)
            THEN IF wcsnamekw # NONE THEN wcsnamekw
                 ELSE IF ~Blank(hdrname0) THEN hdrname0
                 ELSE hdrnamekw
            ELSE wcsname0
        nameErr ==
            IF Falsy(wcsname0) THEN wcsname = NONE
            ELSE wcsnamekw = NONE \/ wcsname0 # wcsnamekw
        hdrname ==
            IF ~Falsy(hdrname0) THEN hdrname0
            ELSE hdrnamekw
    IN  IF nameErr THEN [exc |-> "KeyError", hlet |-> NoHlet]
        ELSE IF wcskey # " " /\ wcskey \notin wcskeys(hdr)
        THEN [exc |-> "ValueError", hlet |-> NoHlet]
        ELSE IF hdrname = NONE THEN [exc |-> "KeyError", hlet |-> NoHlet]
        ELSE IF wcskey = ReservedKey THEN [exc |-> NoExc, hlet |-> NoHlet]
        ELSE [exc |-> NoExc,
              hlet |-> [hdrname |-> hdrname, wcsname |-> wcsname,
                        destim |-> fobj.phdr.rootname,
                        distname |-> build_distname(fobj),
                        upwcsver |-> TRUE,
                        sipwcs |-> SipwcsParts(fobj, wcskey)]]

\* create_headerlet(fobj, sciext='SCI', hdrname, wcskey, wcsname):
\* [exc, hlet]; hlet is NoHlet when the call raised or returned None
create_headerlet(fobj, hdrname0, wcskey0, wcsname0) ==
    IF wcskey0 = NONE
    THEN [exc |-> "AttributeError", hlet |-> NoHlet]
    ELSE
    LET wcskey == IF wcskey0 = "PRIMARY" THEN " " ELSE wcskey0
        hdr == fobj.sci[1]
        wcsnamekw == KwWcsname(hdr, wcskey)
        hdrnamekw == KwHdrname(hdr, wcskey)
        wcsname ==
            IF Falsy(wcsname0)
            THEN IF wcsnamekw # NONE THEN wcsnamekw
                 ELSE IF ~Blank(hdrname0) THEN hdrname0
                 ELSE hdrnamekw
            ELSE wcsname0
        nameErr ==
            IF Falsy(wcsname0) THEN wcsname = NONE
            ELSE wcsnamekw = NONE \/ wcsname0 # wcsnamekw
        hdrname ==
            IF ~Falsy(hdrname0) THEN hdrname0
            ELSE IF hdrnamekw # NONE THEN hdrnamekw
            ELSE wcsnamekw
    IN  IF nameErr THEN [exc |-> "KeyError", hlet |-> NoHlet]
        ELSE IF wcskey # " " /\ wcskey \notin wcskeys(hdr)
        THEN [exc |-> "ValueError", hlet |-> NoHlet]
        ELSE IF hdrname = NONE THEN [exc |-> "KeyError", hlet |-> NoHlet]
        ELSE IF wcskey = ReservedKey THEN [exc |-> NoExc, hlet |-> NoHlet]
        ELSE [exc |-> NoExc,
              hlet |-> [hdrname |-> hdrname, wcsname |-> wcsname,
                        destim |-> fobj.phdr.rootname,
                        distname |-> build_distname(fobj),
                        upwcsver |-> TRUE,
                        sipwcs |-> SipwcsParts(fobj, wcskey)]]

\* ---------------------------------------------------------- attach_to_file
Ret(fobj, exc, log) == [fobj |-> fobj, exc |-> exc, log |-> log]

\* a variant that records the rows of an attached headerlet as active
mut_attach_to_file(h, fobj) ==
    IF hverify(h) /\ verify_dest(h, fobj) /\ verify_hdrname(h, fobj)
    THEN Ret(update_wcscorr(
                [fobj EXCEPT !.hdus =
                    Append(@, HeaderletHDU(h, countExtn(fobj, "HDRLET") + 1))],
                h, h.wcsname, TRUE), NoExc, NoLog)
    ELSE Ret(fobj, NoExc, "hdrname")

\* Headerlet.attach_to_file(fobj)
attach_to_file(h, fobj) ==
    IF ~hverify(h) THEN Ret(fobj, "AssertionError", NoLog)
    ELSE
    LET destver == verify_dest(h, fobj)
        hdrver == verify_hdrname(h, fobj)
        numhlt == countExtn(fobj, "HDRLET")
        appended == [fobj EXCEPT
                        !.hdus = Append(@, HeaderletHDU(h, numhlt + 1))]
    IN  IF destver /\ hdrver
        THEN Ret(update_wcscorr(appended, h, h.wcsname, FALSE), NoExc, NoLog)
        ELSE Ret(fobj, NoExc,
                 IF ~destver /\ ~hdrver THEN "destim+hdrname"
                 ELSE IF ~destver THEN "destim" ELSE "hdrname")

\* ------------------------------------------------------------- archiving
\* name of the primary WCS of a SCI header as apply_as_primary and
\* restore_from_headerlet work it out (HDRNAME, else WCSNAME, else a default)
priwcs_name(scihdr) ==
    IF scihdr.hdrname # NONE THEN scihdr.hdrname
    ELSE IF scihdr.wcsname # NONE THEN scihdr.wcsname
    ELSE "UNKNOWN"

\* header.update of one alternate WCS: replaces the cards stored under the
\* key, or adds them
PutAlt(ext, card) ==
    IF card.key \in wcskeys(ext)
    THEN [ext EXCEPT !.alts =
            [i \in DOMAIN @ |-> IF @[i].key = card.key THEN card ELSE @[i]]]
    ELSE [ext EXCEPT !.alts = Append(@, card)]

\* altwcs.archiveWCS(fobj, ext=<every SCI extension>, wcskey, wcsname):
\* copies the primary WCS of each extension under wcskey
archiveWCS(fobj, wcskey, wcsname) ==
    [fobj EXCEPT !.sci =
        [e \in SciExts |->
            PutAlt(@[e], [key |-> wcskey, name |-> wcsname,
                          hdrname |-> @[e].hdrname, lin |-> @[e].lin])]]

\* ------------------------------------------------------------ _del_dest_WCS
\* _remove_d2im, _remove_sip, _remove_lut of one extension
RemoveDistortion(ext) ==
    [ext EXCEPT !.d2im = NONE, !.sip = NONE, !.lut = NONE]

\* Headerlet._remove_primary_WCS(ext): its first statement reads the name
\* hdr_logger, which the module never binds
_remove_primary_WCS(ext) == [exc |-> "NameError", ext |-> ext]

\* Headerlet._remove_alt_WCS(dest, ext): every key of ('SCI', 1) but the
\* reserved one is deleted from every extension
_remove_alt_WCS(fobj) ==
    LET dkeys == wcskeys(fobj.sci[1]) \ {ReservedKey, "", " "}
    IN [fobj EXCEPT !.sci =
          [e \in SciExts |->
             [@[e] EXCEPT !.alts =
                SelectSeq(@, LAMBDA a : a.key \notin dkeys)]]]

\* Headerlet._del_dest_WCS(dest): the loop over the IMAGE extensions stops
\* at the first exception; SCI 1 (fobj[1]) is the first IMAGE extension
RECURSIVE DelDestLoop(_, _)
DelDestLoop(fobj, e) ==
    IF e > NumSci THEN Ret(fobj, NoExc, NoLog)
    ELSE LET stripped == RemoveDistortion(fobj.sci[e])
             r == _remove_primary_WCS(stripped)
             f == [fobj EXCEPT !.sci[e] = r.ext]
         IN IF r.exc # NoExc THEN Ret(f, r.exc, NoLog)
            ELSE DelDestLoop(
                    [f EXCEPT !.sci[e].wcsname = NONE, !.sci[e].lin = NONE,
                              !.sci[e].hdrname = NONE], e + 1)

_del_dest_WCS(fobj) ==
    LET r == DelDestLoop(fobj, 1)
    IN IF r.exc # NoExc THEN r
       ELSE Ret(_remove_alt_WCS([r.fobj EXCEPT !.phdr.refs = "NOMODEL"]),
                NoExc, NoLog)

\* --------------------------------------------------------- apply_as_primary
OrigName == "R1_orig"                \* ROOTNAME + '_orig'

\* self[('SIPWCS', idx)]
HasPart(h, idx) == \E i \in DOMAIN h.sipwcs : h.sipwcs[i].extver = idx
Part(h, idx) ==
    h.sipwcs[CHOOSE i \in DOMAIN h.sipwcs : h.sipwcs[i].extver = idx]

\* update_ref_files(self[0].header, fobj[0].header)
update_ref_files(h, fobj) == [fobj EXCEPT !.phdr.refs = h.distname]

\* the HeaderletHDUs made for the names of the loop over altwcs.wcsnames,
\* in the order the dictionary yields them
RECURSIVE AltHdus(_, _, _)
AltHdus(fobj, cand, numhlt) ==
    IF cand = {} THEN <<>>
    ELSE LET hname == CHOOSE n \in cand : TRUE
         IN <<HeaderletHDU(create_headerlet(fobj, hname, " ", hname).hlet,
                           numhlt + 1)>>
            \o AltHdus(fobj, cand \ {hname}, numhlt + 1)

\* the archive branch of apply_as_primary: [exc, fobj, hdus], hdus being
\* the HeaderletHDUs to append once the primary WCS is written
ArchivePrimary(fobj, h, equal) ==
    LET hdrlet_extnames == Range(get_headerlet_kw_names(fobj))
        numhlt == countExtn(fobj, "HDRLET")
        sci1 == fobj.sci[1]
        hdrname == IF sci1.wcsname # NONE THEN sci1.wcsname ELSE OrigName
        wcsname == sci1.wcsname
        wcsextn == h.sipwcs[1].extver
        needOrig == hdrname \notin hdrlet_extnames
        orig == create_headerlet(fobj, hdrname, " ", wcsname)
        origHdus == IF needOrig
                    THEN <<HeaderletHDU(orig.hlet, numhlt + 1)>> ELSE <<>>
        nextkey == next_wcskey(fobj.sci[wcsextn])
        cand == {n \in wcsnames(fobj.sci[wcsextn]) :
                    n # "OPUS" /\ n \notin hdrlet_extnames}
        bad == {n \in cand : create_headerlet(fobj, n, " ", n).exc # NoExc}
    IN  IF needOrig /\ orig.exc # NoExc
        THEN [exc |-> orig.exc, fobj |-> fobj, hdus |-> <<>>]
        ELSE IF equal
        THEN IF nextkey = NONE
             THEN [exc |-> "SlotExhausted", fobj |-> fobj, hdus |-> <<>>]
             ELSE [exc |-> NoExc,
                   fobj |-> archiveWCS(fobj, nextkey,
                                       priwcs_name(fobj.sci[wcsextn])),
                   hdus |-> origHdus]
        ELSE IF bad # {}
        THEN [exc |-> create_headerlet(fobj, CHOOSE n \in bad : TRUE, " ",
                                       CHOOSE n \in bad : TRUE).exc,
              fobj |-> fobj, hdus |-> <<>>]
        ELSE [exc |-> NoExc, fobj |-> fobj,
              hdus |-> origHdus
                       \o AltHdus(fobj, cand, numhlt + Len(origHdus))]

\* the loop over the SIPWCS parts that writes the primary WCS
RECURSIVE PrimaryLoop(_, _, _, _)
PrimaryLoop(fobj, h, equal, idx) ==
    IF idx > Len(h.sipwcs) THEN Ret(fobj, NoExc, NoLog)
    ELSE IF idx > NumSci \/ ~HasPart(h, idx)
    THEN Ret(fobj, "KeyError", NoLog)
    ELSE
    LET p == Part(h, idx)
        old == fobj.sci[idx]
        new == IF equal
               THEN [old EXCEPT
                        !.lin = IF old.lin # NONE THEN p.lin ELSE NONE,
                        !.wcsname = IF old.wcsname # NONE THEN p.wcsname
                                    ELSE NONE,
                        !.hdrname = h.hdrname]
               ELSE [old EXCEPT
                        !.lin = p.lin, !.wcsname = p.wcsname,
                        !.hdrname = h.hdrname, !.sip = h.distname,
                        !.lut = h.distname, !.d2im = h.distname]
    IN PrimaryLoop([fobj EXCEPT !.sci[idx] = new], h, equal,
                   idx + 1)

mut_dist_models_equal(h, fobj) == TRUE

\* the comparison of the two DISTNAME values that opens apply_as_primary
dist_models_equal(h, fobj) == h.distname = fobj.phdr.distname

\* Headerlet.apply_as_primary(fobj, attach, archive, force)
apply_as_primary(h, fobj, attach, archive, force) ==
    IF ~hverify(h) THEN Ret(fobj, "AssertionError", NoLog)
    ELSE IF ~verify_dest(h, fobj) THEN Ret(fobj, NoExc, "cannot be updated")
    ELSE
    LET equal == dist_models_equal(h, fobj)
        f1 == init_wcscorr(fobj)
        ar == IF archive THEN ArchivePrimary(f1, h, equal)
              ELSE [exc |-> NoExc, fobj |-> f1, hdus |-> <<>>]
        dd == IF equal THEN Ret(ar.fobj, NoExc, NoLog)
              ELSE _del_dest_WCS(ar.fobj)
        lp == PrimaryLoop(update_ref_files(h, dd.fobj), h, equal, 1)
        f5 == update_wcscorr(lp.fobj, h, h.wcsname, TRUE)
        f6 == [f5 EXCEPT !.hdus = @ \o ar.hdus]
    IN  IF ~equal /\ ~force THEN Ret(fobj, "ValueError", NoLog)
        ELSE IF ar.exc # NoExc THEN Ret(ar.fobj, ar.exc, NoLog)
        ELSE IF dd.exc # NoExc THEN dd
        ELSE IF lp.exc # NoExc THEN lp
        ELSE IF attach THEN attach_to_file(h, f6)
        ELSE Ret(f6, NoExc, NoLog)

\* ------------------------------------------------------- apply_as_alternate
\* the loop over the SIPWCS parts that inserts the alternate WCS cards
RECURSIVE AlternateLoop(_, _, _, _, _)
AlternateLoop(fobj, h, wkey, wname, idx) ==
    IF idx > Len(h.sipwcs) THEN Ret(fobj, NoExc, NoLog)
    ELSE IF ~HasPart(h, idx) THEN Ret(fobj, "KeyError", NoLog)
    ELSE
    LET p == Part(h, idx)
        card == [key |-> wkey, name |-> wname, hdrname |-> h.hdrname,
                 lin |-> p.lin]
    IN AlternateLoop([fobj EXCEPT !.sci[p.extver].alts = Append(@, card)],
                     h, wkey, wname, idx + 1)

\* Headerlet.apply_as_alternate(fobj, attach, wcskey, wcsname)
apply_as_alternate(h, fobj, attach, wcskey, wcsname) ==
    IF ~hverify(h) THEN Ret(fobj, "AssertionError", NoLog)
    ELSE IF wcskey = NONE THEN Ret(fobj, "AttributeError", NoLog)
    ELSE IF ~verify_dest(h, fobj) THEN Ret(fobj, NoExc, "cannot be updated")
    ELSE
    LET distname == fobj.phdr.distname
        f1 == init_wcscorr(fobj)
        wname == IF wcsname # NONE THEN wcsname ELSE h.wcsname
        sciext == Part(h, 1).extver
        lp == AlternateLoop(f1, h, wcskey, wname, 1)
        f3 == update_wcscorr(lp.fobj, h, h.wcsname, TRUE)
    IN  IF distname = "UNKNOWN" \/ h.distname # distname
        THEN Ret(fobj, "ValueError", NoLog)
        ELSE IF ~HasPart(h, 1) THEN Ret(f1, "KeyError", NoLog)
        ELSE IF wcskey \notin Range(available_wcskeys(f1.sci[sciext]))
        THEN Ret(f1, "ValueError", NoLog)
        ELSE IF lp.exc # NoExc THEN lp
        ELSE IF attach THEN attach_to_file(h, f3)
        ELSE Ret(f3, NoExc, NoLog)

\* ------------------------------------------------------ find_headerlet_HDUs
\* An extension selector hdrext: none, the index of an extension, or the
\* tuple ('HDRLET', n) naming an extension by EXTNAME and EXTVER.
NoExt == [kind |-> "none", num |-> 0]
IntExt(n) == [kind |-> "int", num |-> n]
TupleExt(n) == [kind |-> "tuple", num |-> n]

\* a variant that keeps the entries matching every selector given
mut_find_headerlet_HDUs(fobj, hdrext, hdrname, distname, strict) ==
    LET get_all == hdrext.kind = "none" /\ hdrname = NONE /\ distname = NONE
        byIndex ==
            IF /\ hdrext.num > NumSci
               /\ hdrext.num <= NumSci + Len(fobj.hdus)
               /\ fobj.hdus[hdrext.num - NumSci].extname = "HDRLET"
            THEN {hdrext.num} ELSE {}
        byMatch ==
            {NumSci + i : i \in
                {k \in HdrletPos(fobj) :
                    \/ get_all
                    \/ /\ hdrext.kind = "tuple"
                            => hdrext.num = fobj.hdus[k].extver
                       /\ hdrname # NONE
                            => hdrname = fobj.hdus[k].hlet.hdrname
                       /\ distname # NONE
                            => distname = fobj.hdus[k].hlet.distname}}
        hdrlets == IF hdrext.kind = "int" THEN byIndex ELSE byMatch
    IN  IF get_all /\ strict THEN [exc |-> "ValueError", ind |-> <<>>]
        ELSE IF hdrlets = {} THEN [exc |-> "ValueError", ind |-> <<>>]
        ELSE [exc |-> NoExc, ind |-> SetToSeq(hdrlets)]

\* find_headerlet_HDUs(fobj, hdrext, hdrname, distname, strict):
\* [exc, ind], ind the matching indices of fobj in file order
find_headerlet_HDUs(fobj, hdrext, hdrname, distname, strict) ==
    LET get_all == hdrext.kind = "none" /\ hdrname = NONE /\ distname = NONE
        byIndex ==
            IF /\ hdrext.num > NumSci
               /\ hdrext.num <= NumSci + Len(fobj.hdus)
               /\ fobj.hdus[hdrext.num - NumSci].extname = "HDRLET"
            THEN {hdrext.num} ELSE {}
        byMatch ==
            {NumSci + i : i \in
                {k \in HdrletPos(fobj) :
                    \/ get_all
                    \/ hdrext.kind = "tuple"
                        /\ hdrext.num = fobj.hdus[k].extver
                    \/ hdrname # NONE /\ hdrname = fobj.hdus[k].hlet.hdrname
                    \/ distname # NONE
                        /\ distname = fobj.hdus[k].hlet.distname}}
        hdrlets == IF hdrext.kind = "int" THEN byIndex ELSE byMatch
    IN  IF get_all /\ strict THEN [exc |-> "ValueError", ind |-> <<>>]
        ELSE IF hdrlets = {} THEN [exc |-> "ValueError", ind |-> <<>>]
        ELSE [exc |-> NoExc, ind |-> SetToSeq(hdrlets)]

\* --------------------------------------------------------- delete_headerlet
\* del fobj[idx]: [exc, fobj]; the provenance table leaves with its HDU
DelHdu(fobj, idx) ==
    IF idx <= NumSci \/ idx > NumSci + Len(fobj.hdus)
    THEN Ret(fobj, "IndexError", NoLog)
    ELSE Ret([fobj EXCEPT
                !.hdus = DelAt(@, idx - NumSci),
                !.wcscorr = IF fobj.hdus[idx - NumSci].extname = "WCSCORR"
                            THEN {} ELSE @],
             NoExc, NoLog)

\* for hdrind in hdrlet_ind: del fobj[hdrind]
RECURSIVE DelLoop(_, _, _)
DelLoop(fobj, hdrlet_ind, k) ==
    IF k > Len(hdrlet_ind) THEN Ret(fobj, NoExc, NoLog)
    ELSE LET r == DelHdu(fobj, hdrlet_ind[k])
         IN IF r.exc # NoExc THEN r
            ELSE DelLoop(r.fobj, hdrlet_ind, k + 1)

\* fobj[hdrext] for an extension selector that find_headerlet_HDUs matched:
\* the position in fobj.hdus of the extension it names (the first one of
\* that EXTNAME and EXTVER for a tuple)
ExtPos(fobj, hdrext) ==
    IF hdrext.kind = "int" THEN hdrext.num - NumSci
    ELSE CHOOSE i \in HdrletPos(fobj) :
            /\ fobj.hdus[i].extver = hdrext.num
            /\ \A j \in HdrletPos(fobj) :
                  fobj.hdus[j].extver = hdrext.num => i <= j

\* a variant that reports a selector without a match through the log only
mut_delete_headerlet(fobj, hdrname, hdrext, distname) ==
    Ret(fobj, NoExc, "No HDUs deleted")

\* delete_headerlet(filename, hdrname, hdrext, distname)
delete_headerlet(fobj, hdrname, hdrext, distname) ==
    LET found == find_headerlet_HDUs(fobj, hdrext, hdrname, distname, TRUE)
        selkw == IF ~Blank(hdrname) \/ hdrext.kind # "none"
                 THEN "hdrname" ELSE "distname"
        selval == IF ~Blank(hdrname) THEN hdrname
                  ELSE IF hdrext.kind # "none"
                  THEN fobj.hdus[ExtPos(fobj, hdrext)].hlet.hdrname
                  ELSE distname
    IN  IF found.exc # NoExc THEN Ret(fobj, found.exc, NoLog)
        ELSE IF Len(found.ind) = 0 THEN Ret(fobj, NoExc, "No HDUs deleted")
        ELSE IF countExtn(fobj, "WCSCORR") = 0
        THEN Ret(fobj, "KeyError", NoLog)
        ELSE DelLoop(delete_wcscorr_row(fobj, selkw, selval), found.ind, 1)

\* --------------------------------------------------- restore_from_headerlet
\* a variant that takes the first of several matching entries
mut_restore_from_headerlet(fobj, hdrname, hdrext, archive, force) ==
    LET found == find_headerlet_HDUs(fobj, hdrext, hdrname, NONE, TRUE)
    IN  IF found.exc # NoExc THEN Ret(fobj, found.exc, NoLog)
        ELSE IF Len(fobj.hdus[found.ind[1] - NumSci].hlet.sipwcs) > 0
        THEN Ret(fobj, "NameError", NoLog)
        ELSE Ret(fobj, "IndexError", NoLog)

\* restore_from_headerlet(filename, hdrname, hdrext, archive, force): after
\* the selector is resolved, the loop over the SIPWCS parts of the entry
\* evaluates eval(SCIEXT); SCIEXT reads "SCI, n" and SCI is no name of the
\* module, so the first part raises NameError and the rest of the function
\* is not reached. An entry without a part fails on extlist[0].
restore_from_headerlet(fobj, hdrname, hdrext, archive, force) ==
    LET found == find_headerlet_HDUs(fobj, hdrext, hdrname, NONE, TRUE)
        hdrlet == fobj.hdus[found.ind[1] - NumSci].hlet
    IN  IF found.exc # NoExc THEN Ret(fobj, found.exc, NoLog)
        ELSE IF Len(found.ind) > 1 THEN Ret(fobj, "ValueError", NoLog)
        ELSE IF Len(hdrlet.sipwcs) > 0 THEN Ret(fobj, "NameError", NoLog)
        ELSE Ret(fobj, "IndexError", NoLog)

\* ------------------------------------------------ restore_all_with_distname
\* The primary argument: None, an extension index, or a HDRNAME.
NoPrimary == [kind |-> "none", num |-> 0, name |-> NONE]
IntPrimary(n) == [kind |-> "int", num |-> n, name |-> NONE]
NamePrimary(n) == [kind |-> "name", num |-> 0, name |-> n]

\* an outcome together with the state of the update handle: open tells
\* that a handle the call opened was not closed when the call ended
RetOpen(r, open) ==
    [fobj |-> r.fobj, exc |-> r.exc, log |-> r.log, open |-> open]
\* no close on the way out of an exception
RetOpenIfRaised(r) == RetOpen(r, r.exc # NoExc)

\* the loop over hdrlet_ind: the primary entry goes through
\* apply_as_primary(attach=False, archive, force=True), every other one
\* through apply_as_alternate(attach=False, wcsname) with no wcskey
RECURSIVE RestoreAllLoop(_, _, _, _, _)
\* after the k-th entry was applied with outcome r: an exception ends the
\* loop, otherwise the next entry is applied to r.fobj
RestoreAllStep(r, hdrlet_ind, k, primary_ind, archive) ==
    IF r.exc # NoExc THEN r
    ELSE RestoreAllLoop(r.fobj, hdrlet_ind, k + 1, primary_ind, archive)

RestoreAllEntry(hdrlet, fobj, isPrimary, archive) ==
    IF isPrimary
    THEN apply_as_primary(hdrlet, fobj, FALSE, archive, TRUE)
    ELSE apply_as_alternate(hdrlet, fobj, FALSE, NONE, hdrlet.wcsname)

RestoreAllLoop(fobj, hdrlet_ind, k, primary_ind, archive) ==
    IF k > Len(hdrlet_ind) THEN Ret(fobj, NoExc, NoLog)
    ELSE RestoreAllStep(
            RestoreAllEntry(fobj.hdus[hdrlet_ind[k] - NumSci].hlet, fobj,
                            hdrlet_ind[k] = primary_ind, archive),
            hdrlet_ind, k, primary_ind, archive)

\* a variant without the comparison of the primary entry's DISTNAME
mut_restore_all_with_distname(fobj, distname, primary, archive) ==
    LET found == find_headerlet_HDUs(fobj, NoExt, NONE, distname, TRUE)
    IN  IF found.exc # NoExc
        THEN RetOpen(Ret(fobj, found.exc, NoLog), TRUE)
        ELSE RetOpenIfRaised(RestoreAllLoop(fobj, found.ind, 1,
                        IF primary.kind = "int" THEN primary.num
                        ELSE found.ind[1], archive))

\* restore_all_with_distname(filename, distname, primary, archive): the
\* container is opened first; find_headerlet_HDUs raises by itself when
\* nothing matches, past the close of the len(hdrlet_ind) == 0 branch
restore_all_with_distname(fobj, distname, primary, archive) ==
    LET found == find_headerlet_HDUs(fobj, NoExt, NONE, distname, TRUE)
        named == {found.ind[i] : i \in
                    {j \in DOMAIN found.ind :
                        fobj.hdus[found.ind[j] - NumSci].hlet.hdrname
                            = primary.name}}
        primary_ind ==
            IF primary.kind = "none" THEN found.ind[1]
            ELSE IF primary.kind = "int" THEN primary.num
            ELSE CHOOSE i \in named : \A j \in named : i <= j
        pri == fobj.hdus[primary_ind - NumSci]
    IN  IF found.exc # NoExc
        THEN RetOpen(Ret(fobj, found.exc, NoLog), TRUE)
        ELSE IF primary.kind = "name" /\ named = {}
        THEN RetOpen(Ret(fobj, "ValueError", NoLog), FALSE)
        ELSE IF primary_ind > NumSci + Len(fobj.hdus)
        THEN RetOpen(Ret(fobj, "IndexError", NoLog), TRUE)
        ELSE IF primary_ind <= NumSci \/ pri.extname # "HDRLET"
        THEN RetOpen(Ret(fobj, "AttributeError", NoLog), TRUE)
        ELSE IF pri.hlet.distname # distname
        THEN RetOpen(Ret(fobj, "ValueError", NoLog), FALSE)
        ELSE RetOpenIfRaised(RestoreAllLoop(fobj, found.ind, 1, primary_ind,
                                            archive))

\* ------------------------------------------ write_headerlet, archive_as_...
\* write_headerlet(filename, hdrname, wcsname, wcskey, attach)
write_headerlet(fobj, hdrname0, wcsname, wcskey0, attach) ==
    LET wcskey == IF wcskey0 = "PRIMARY" THEN " " ELSE wcskey0
        f1 == init_wcscorr(fobj)
        wname == IF wcsname = NONE THEN KwWcsname(f1.sci[1], wcskey)
                 ELSE wcsname
        hdrname == IF hdrname0 \in {NONE, " ", ""} THEN wcsname
                   ELSE hdrname0
        made == create_headerlet(f1, hdrname, wcskey, wname)
        hdrnames == Range(get_headerlet_kw_names(f1))
        appended == [f1 EXCEPT !.hdus = Append(@, HeaderletHDU(made.hlet, 1))]
    IN  IF Blank(wcsname) /\ wcskey0 = NONE
        THEN Ret(fobj, "ValueError", NoLog)
        ELSE IF wcsname = NONE /\ wname = NONE THEN Ret(f1, "KeyError", NoLog)
        ELSE IF made.exc # NoExc THEN Ret(f1, made.exc, NoLog)
        ELSE IF made.hlet = NoHlet THEN Ret(f1, "AttributeError", NoLog)
        ELSE IF ~attach THEN Ret(f1, NoExc, NoLog)
        ELSE IF hdrname \notin hdrnames
        THEN Ret(update_wcscorr(appended, made.hlet, wname, TRUE),
                 NoExc, NoLog)
        ELSE Ret(f1, NoExc, "already archived")

\* archive_as_headerlet(filename, hdrname, wcsname, wcskey)
archive_as_headerlet(fobj, hdrname0, wcsname0, wcskey0) ==
    LET wcskey == IF wcskey0 = "PRIMARY" THEN " " ELSE wcskey0
        wcsname == IF wcsname0 = NONE THEN KwWcsname(fobj.sci[1], wcskey)
                   ELSE wcsname0
        hdrname == IF hdrname0 \in {NONE, " ", ""} THEN wcsname
                   ELSE hdrname0
        made == create_headerlet(fobj, hdrname, wcskey, wcsname)
        hdrnames == Range(get_headerlet_kw_names(fobj))
    IN  IF Blank(wcsname0) /\ wcskey0 = NONE
        THEN Ret(fobj, "ValueError", NoLog)
        ELSE IF wcskey0 = NONE THEN Ret(fobj, "AttributeError", NoLog)
        ELSE IF wcsname = NONE THEN Ret(fobj, "KeyError", NoLog)
        ELSE IF hdrname \in hdrnames
        THEN Ret(fobj, NoExc, "already archived")
        ELSE IF made.exc # NoExc THEN Ret(fobj, made.exc, NoLog)
        ELSE IF made.hlet = NoHlet THEN Ret(fobj, "AttributeError", NoLog)
        ELSE Ret([fobj EXCEPT !.hdus = Append(@, HeaderletHDU(made.hlet, 1))],
                 NoExc, NoLog)

\* ------------------------------------------------- tofile, Headerlet(fname)
\* header[kw] of a card list, NONE when the keyword is absent
CardValue(cards, kw) ==
    IF \E i \in DOMAIN cards : cards[i][1] = kw
    THEN cards[CHOOSE i \in DOMAIN cards : cards[i][1] = kw][2]
    ELSE NONE

\* _create_primary_HDU: the cards of the primary header of a headerlet
_create_primary_HDU(h) ==
    <<  <<"DESTIM", h.destim>>, <<"HDRNAME", h.hdrname>>,
        <<"WCSNAME", h.wcsname>>, <<"DISTNAME", h.distname>> >>
    \o (IF h.upwcsver THEN << <<"UPWCSVER", "1">> >> ELSE <<>>)

\* a variant that stamps the destim and hdrname arguments into the header
mut_tofile(h, destim, hdrname) ==
    [exc |-> NoExc,
     file |-> [cards |-> _create_primary_HDU(
                            [h EXCEPT !.destim = IF destim # NONE THEN destim
                                                 ELSE @,
                                      !.hdrname = IF hdrname # NONE
                                                  THEN hdrname ELSE @]),
               parts |-> h.sipwcs]]

\* Headerlet.tofile(fname, destim, hdrname): [exc, file]
tofile(h, destim, hdrname) ==
    IF (Falsy(destim) \/ Falsy(hdrname)) /\ ~hverify(h)
    THEN [exc |-> "AssertionError", file |-> [cards |-> <<>>, parts |-> <<>>]]
    ELSE [exc |-> NoExc,
          file |-> [cards |-> _create_primary_HDU(h), parts |-> h.sipwcs]]

\* Headerlet.__init__(fobj): the attributes read from the primary header
Headerlet(file) ==
    [hdrname |-> CardValue(file.cards, "HDRNAME"),
     wcsname |-> CardValue(file.cards, "WCSNAME"),
     destim |-> CardValue(file.cards, "DESTIM"),
     distname |-> CardValue(file.cards, "DISTNAME"),
     upwcsver |-> CardValue(file.cards, "UPWCSVER") # NONE,
     sipwcs |-> file.parts]

\* ------------------------------------------------------- extract_headerlet
NoFile == [cards |-> <<>>, parts |-> <<>>]

\* the tail of extract_headerlet once the extension index is known: the
\* isinstance test on fobj[extn] and hdrlet.tofile(outname)
WriteEntry(fobj, extn) ==
    IF extn > NumSci + Len(fobj.hdus)
    THEN [exc |-> "IndexError", file |-> NoFile]
    ELSE IF extn <= NumSci \/ fobj.hdus[extn - NumSci].extname # "HDRLET"
    THEN [exc |-> "ValueError", file |-> NoFile]
    ELSE LET w == tofile(fobj.hdus[extn - NumSci].hlet, NONE, NONE)
         IN [exc |-> w.exc,
             file |-> IF w.exc = NoExc THEN w.file ELSE NoFile]

\* a variant that compares the extension found by name with extnum only
\* when extnum is given
mut_extract_headerlet(fobj, byName, extnum, hdrname) ==
    LET found == find_headerlet_HDUs(fobj, NoExt, hdrname, NONE, TRUE)
    IN  IF Blank(hdrname) /\ extnum.kind = "none" /\ byName
        THEN [exc |-> "ValueError", file |-> NoFile]
        ELSE IF hdrname = NONE
        THEN IF extnum.kind = "none"
             THEN [exc |-> "KeyError", file |-> NoFile]
             ELSE WriteEntry(fobj, extnum.num)
        ELSE IF found.exc # NoExc THEN [exc |-> found.exc, file |-> NoFile]
        ELSE IF extnum.kind = "int" /\ extnum.num # found.ind[1]
        THEN [exc |-> "ValueError", file |-> NoFile]
        ELSE WriteEntry(fobj, found.ind[1])

\* extract_headerlet(filename, output, extnum, hdrname): [exc, file], file
\* the headerlet file written (NoFile when none is). byName tells a file
\* name from an open HDUList: parse_filename sets close_fobj for the
\* former only, and the ValueError of the first test is raised under
\* "if close_fobj". extnum is NoExt for None. With neither selector and an
\* open HDUList the function goes on to fobj[None], which HDUList refuses
\* with KeyError.
extract_headerlet(fobj, byName, extnum, hdrname) ==
    LET close_fobj == byName
        found == find_headerlet_HDUs(fobj, NoExt, hdrname, NONE, TRUE)
    IN  IF Blank(hdrname) /\ extnum.kind = "none" /\ close_fobj
        THEN [exc |-> "ValueError", file |-> NoFile]
        ELSE IF hdrname # NONE
        THEN IF found.exc # NoExc
             THEN [exc |-> found.exc, file |-> NoFile]
             ELSE IF extnum.kind # "int" \/ extnum.num # found.ind[1]
             THEN [exc |-> "ValueError", file |-> NoFile]
             ELSE WriteEntry(fobj, found.ind[1])
        ELSE IF extnum.kind = "none"
        THEN [exc |-> "KeyError", file |-> NoFile]
        ELSE WriteEntry(fobj, extnum.num)

\* ------------------------------------------------------- the update handle
\* The outcome r of a call given a file name, together with whether the
\* handle the call opened in update mode is still open when it ends.
\* apply_as_primary opens after hverify and closes only at the end of the
\* verify_dest branch.
apply_as_primary_open(h, fobj, r) ==
    RetOpen(r, hverify(h) /\ (~verify_dest(h, fobj) \/ r.exc # NoExc))

\* apply_as_alternate opens after hverify and wcskey.upper(); it closes
\* before each ValueError it raises and at its end.
apply_as_alternate_open(h, wcskey, r) ==
    RetOpen(r, /\ hverify(h) /\ wcskey # NONE
               /\ r.exc \notin {NoExc, "ValueError"})

\* attach_to_file opens after hverify; both branches reach the close.
attach_to_file_open(h, r) == RetOpen(r, FALSE)

\* delete_headerlet opens after find_headerlet_HDUs returned and closes at
\* its end.
delete_headerlet_open(r) ==
    RetOpen(r, r.exc \in {"KeyError", "IndexError"})

\* restore_from_headerlet opens after find_headerlet_HDUs returned and
\* closes before its ValueError and at its end.
restore_from_headerlet_open(r) ==
    RetOpen(r, r.exc \in {"NameError", "IndexError"})

\* write_headerlet opens, in update mode when attach is set, after the
\* test of wcsname and wcskey, and closes after the attach branch.
write_headerlet_open(wcsname, wcskey, attach, r) ==
    RetOpen(r, /\ attach /\ r.exc # NoExc
               /\ ~(Blank(wcsname) /\ wcskey = NONE))

\* archive_as_headerlet opens first, closes before the ValueError of the
\* test of wcsname and wcskey, and at its end.
archive_as_headerlet_open(wcsname, wcskey, r) ==
    RetOpen(r, r.exc # NoExc /\ ~(Blank(wcsname) /\ wcskey = NONE))

\* Whether a call that ended with outcome r wrote the container back to its
\* file; close_dest tells that the call was given a file name and opened the
\* container itself. The three methods never call flush: the file is
\* written only by the close of a handle they opened.
apply_as_primary_flushed(h, fobj, close_dest, r) ==
    hverify(h) /\ verify_dest(h, fobj) /\ r.exc = NoExc /\ close_dest

apply_as_alternate_flushed(close_dest, r) == r.exc = NoExc /\ close_dest

attach_to_file_flushed(close_dest, r) == r.exc = NoExc /\ close_dest

\* delete_headerlet, restore_from_headerlet and restore_all_with_distname
\* call fobj.flush() before the close
delete_headerlet_flushed(r) == r.exc = NoExc

restore_from_headerlet_flushed(r) == r.exc = NoExc

restore_all_with_distname_flushed(r) == r.exc = NoExc

\* ------------------------------------------------------------------ inputs
\* a headerlet made for the container family: one part per SCI extension
MkHlet(name, destim, model) ==
    [hdrname |-> name, wcsname |-> name, destim |-> destim,
     distname |-> model, upwcsver |-> TRUE,
     sipwcs |-> [e \in SciExts |->
                    [extver |-> e, lin |-> name, wcsname |-> name]]]

\* a headerlet whose primary header lacks UPWCSVER
BadHlet == [MkHlet("N2", Rootname, "M1") EXCEPT !.upwcsver = FALSE]

\* the headerlets handed to the operations: two of the container's model,
\* one of another model, one made for another container, one malformed
Hlets ==
    {MkHlet("N1", Rootname, "M1"), MkHlet("N2", Rootname, "M1"),
     MkHlet("N2", Rootname, "M2"), MkHlet("N2", "R2", "M1"), BadHlet}

\* the headerlets handed to apply_as_alternate: those, and one made from a
\* container whose DISTNAME is 'UNKNOWN'
AltHlets == Hlets \cup {MkHlet("N2", Rootname, "UNKNOWN")}

KeyArgs == {NONE, " ", "A"}
AltKeyArgs == {NONE, "A", "O"}
HdrnameArgs == {NONE, "N2"}
ExtArgs == {NoExt} \cup {IntExt(NumSci + i) : i \in 1..MaxHdus}
\* selectors of restore_from_headerlet and extract_headerlet
FindNameArgs == {NONE, " ", "N1", "N2"}
RestoreExtArgs == ExtArgs \cup {TupleExt(1)}
ExtnumArgs == {NoExt, IntExt(1), IntExt(NumSci + 1), IntExt(NumSci + 2)}
\* the primary argument of restore_all_with_distname
PrimaryArgs ==
    {NoPrimary, NamePrimary("N1"), NamePrimary("N2")}
        \cup {IntPrimary(NumSci + i) : i \in 1..MaxHdus}

\* ------------------------------------------------------------------- state
\* fobj: the science container; last: the last call (operation, arguments,
\* outcome); everPrimary: every WCSNAME that has been primary on a SCI
\* extension; ncalls: the calls made so far; handleOpen: the last call,
\* given the file name of the container, left its update handle open
VARIABLES fobj, last, everPrimary, ncalls, handleOpen

vars == <<fobj, last, everPrimary, ncalls, handleOpen>>

PrimaryNames(f) == {f.sci[e].wcsname : e \in SciExts} \ {NONE}

\* the model bounds: extensions after the SCI ones, keys per extension
Bounded(f) ==
    /\ Len(f.hdus) <= MaxHdus
    /\ \A e \in SciExts : Len(f.sci[e].alts) <= MaxAlts

\* A calibrated container: every SCI extension carries the primary WCS N1
\* of the container's model; the last extension may carry one alternate WCS
\* of its own.
Sci0(alts) ==
    [wcsname |-> "N1", hdrname |-> NONE, lin |-> "N1", sip |-> "M1",
     lut |-> "M1", d2im |-> "M1", alts |-> alts]

Container0(lastAlts) ==
    [phdr |-> [rootname |-> Rootname, distname |-> "M1", refs |-> "M1"],
     sci |-> [e \in SciExts |->
                IF e = NumSci THEN Sci0(lastAlts) ELSE Sci0(<<>>)],
     hdus |-> <<>>,
     wcscorr |-> {}]

\* the same container with another distortion model throughout
WithModel(f, dist) ==
    [f EXCEPT !.phdr.distname = dist, !.phdr.refs = dist,
              !.sci = [e \in SciExts |->
                         [@[e] EXCEPT !.sip = dist, !.lut = dist,
                                      !.d2im = dist]]]

\* DISTNAME of the container as opened: a named model, or the value
\* 'UNKNOWN' that build_distname gives a SIP model without a SIPNAME
ContainerModels == {"M1", "UNKNOWN"}

NoCall == [op |-> "none", exc |-> NoExc, log |-> NoLog, arg |-> <<>>]

Init ==
    /\ \E lastAlts \in {<<>>, <<[key |-> "A", name |-> "N3",
                                 hdrname |-> NONE, lin |-> "N3"]>>} :
       \E table \in BOOLEAN, dist \in ContainerModels :
          fobj = IF table
                 THEN init_wcscorr(WithModel(Container0(lastAlts), dist))
                 ELSE WithModel(Container0(lastAlts), dist)
    /\ last = NoCall
    /\ everPrimary = {"N1"}
    /\ ncalls = 0
    /\ handleOpen = FALSE

\* the state after a call that left the container as r.fobj, r.open
\* telling whether the call left its handle open
Called(op, arg, r) ==
    /\ ncalls < MaxCalls
    /\ Bounded(r.fobj)
    /\ ncalls' = ncalls + 1
    /\ fobj' = r.fobj
    /\ last' = [op |-> op, exc |-> r.exc, log |-> r.log, arg |-> arg]
    /\ everPrimary' = everPrimary \cup PrimaryNames(r.fobj)
    /\ handleOpen' = r.open

\* ----------------------------------------------------------------- actions
AttachToFile ==
    \E h \in Hlets :
        /\ Called("attach_to_file", [h |-> h],
                  attach_to_file_open(h, attach_to_file(h, fobj)))

ApplyAsPrimary ==
    \E h \in Hlets, attach \in BOOLEAN, archive \in BOOLEAN,
       force \in BOOLEAN :
        /\ Called("apply_as_primary",
                  [h |-> h, attach |-> attach, archive |-> archive,
                   force |-> force],
                  apply_as_primary_open(h, fobj,
                      apply_as_primary(h, fobj, attach, archive, force)))

ApplyAsAlternate ==
    \E h \in AltHlets, attach \in BOOLEAN, wcskey \in AltKeyArgs :
        /\ Called("apply_as_alternate",
                  [h |-> h, attach |-> attach, wcskey |-> wcskey],
                  apply_as_alternate_open(h, wcskey,
                      apply_as_alternate(h, fobj, attach, wcskey, NONE)))

WriteHeaderlet ==
    \E hdrname \in HdrnameArgs, wcskey \in KeyArgs, attach \in BOOLEAN :
        /\ Called("write_headerlet",
                  [hdrname |-> hdrname, wcskey |-> wcskey,
                   attach |-> attach],
                  write_headerlet_open(NONE, wcskey, attach,
                      write_headerlet(fobj, hdrname, NONE, wcskey, attach)))

ArchiveAsHeaderlet ==
    \E hdrname \in HdrnameArgs, wcskey \in KeyArgs :
        /\ Called("archive_as_headerlet",
                  [hdrname |-> hdrname, wcskey |-> wcskey],
                  archive_as_headerlet_open(NONE, wcskey,
                      archive_as_headerlet(fobj, hdrname, NONE, wcskey)))

RestoreFromHeaderlet ==
    \E hdrname \in FindNameArgs \ {" "}, hdrext \in RestoreExtArgs,
       archive \in BOOLEAN :
        /\ Called("restore_from_headerlet",
                  [hdrname |-> hdrname, hdrext |-> hdrext,
                   archive |-> archive],
                  restore_from_headerlet_open(
                      restore_from_headerlet(fobj, hdrname, hdrext, archive,
                                             FALSE)))

RestoreAllWithDistname ==
    \E distname \in Models, primary \in PrimaryArgs, archive \in BOOLEAN :
        /\ Called("restore_all_with_distname",
                  [distname |-> distname, primary |-> primary,
                   archive |-> archive],
                  restore_all_with_distname(fobj, distname, primary, archive))

DeleteHeaderlet ==
    \E hdrname \in HdrnameArgs, hdrext \in ExtArgs,
       distname \in {NONE} \cup Models :
        /\ Called("delete_headerlet",
                  [hdrname |-> hdrname, hdrext |-> hdrext,
                   distname |-> distname],
                  delete_headerlet_open(
                      delete_headerlet(fobj, hdrname, hdrext, distname)))

\* create_headerlet alone: the container is only read
CreateHeaderlet ==
    \E hdrname \in HdrnameArgs, wcskey \in KeyArgs \ {NONE},
       wcsname \in {NONE, "N1"}, sipname \in {NONE, "S1"} :
        LET made == create_headerlet(fobj, hdrname, wcskey, wcsname)
        IN  /\ ncalls < MaxCalls
            /\ ncalls' = ncalls + 1
            /\ last' = [op |-> "create_headerlet", exc |-> made.exc,
                        log |-> NoLog,
                        arg |-> [hdrname |-> hdrname, wcskey |-> wcskey,
                                 wcsname |-> wcsname, hlet |-> made.hlet,
                                 sipname |-> sipname,
                                 distname |->
                                    create_distname(fobj, sipname, NONE,
                                                    NONE)]]
            /\ handleOpen' = FALSE
            /\ UNCHANGED <<fobj, everPrimary>>

\* create_headerlet, tofile, Headerlet(fname): the container is only read
ToFile ==
    \E wcskey \in KeyArgs \ {NONE}, hdrname \in HdrnameArgs,
       destimArg \in {NONE, "R2"}, hdrnameArg \in {NONE, "N3"} :
        LET made == create_headerlet(fobj, hdrname, wcskey, NONE)
            w == tofile(made.hlet, destimArg, hdrnameArg)
        IN  /\ ncalls < MaxCalls
            /\ made.exc = NoExc /\ made.hlet # NoHlet
            /\ ncalls' = ncalls + 1
            /\ last' = [op |-> "tofile", exc |-> w.exc, log |-> NoLog,
                        arg |-> [orig |-> made.hlet,
                                 back |-> IF w.exc = NoExc
                                          THEN Headerlet(w.file)
                                          ELSE NoHlet]]
            /\ handleOpen' = FALSE
            /\ UNCHANGED <<fobj, everPrimary>>

\* extract_headerlet: the container is only read
ExtractHeaderlet ==
    \E byName \in BOOLEAN, extnum \in ExtnumArgs, hdrname \in FindNameArgs :
        LET r == extract_headerlet(fobj, byName, extnum, hdrname)
        IN  /\ ncalls < MaxCalls
            /\ ncalls' = ncalls + 1
            /\ last' = [op |-> "extract_headerlet", exc |-> r.exc,
                        log |-> NoLog,
                        arg |-> [byName |-> byName, extnum |-> extnum,
                                 hdrname |-> hdrname, file |-> r.file]]
            /\ handleOpen' = FALSE
            /\ UNCHANGED <<fobj, everPrimary>>

Next ==
    \/ AttachToFile
    \/ ApplyAsPrimary
    \/ ApplyAsAlternate
    \/ WriteHeaderlet
    \/ ArchiveAsHeaderlet
    \/ RestoreFromHeaderlet
    \/ RestoreAllWithDistname
    \/ DeleteHeaderlet
    \/ CreateHeaderlet
    \/ ToFile
    \/ ExtractHeaderlet

Spec == Init /\ [][Next]_vars

\* The calls that apply or restore a solution with archive=True, for the
\* properties stated over sequences of those calls alone.
ApplyAsPrimaryArchive ==
    \E h \in Hlets, attach \in BOOLEAN, force \in BOOLEAN :
        /\ Called("apply_as_primary",
                  [h |-> h, attach |-> attach, archive |-> TRUE,
                   force |-> force],
                  apply_as_primary_open(h, fobj,
                      apply_as_primary(h, fobj, attach, TRUE, force)))

RestoreArchive ==
    \E hdrname \in HdrnameArgs, hdrext \in ExtArgs :
        /\ Called("restore_from_headerlet",
                  [hdrname |-> hdrname, hdrext |-> hdrext,
                   archive |-> TRUE],
                  restore_from_headerlet_open(
                      restore_from_headerlet(fobj, hdrname, hdrext, TRUE,
                                             FALSE)))

ProvNext ==
    \/ ApplyAsPrimaryArchive
    \/ ApplyAsAlternate
    \/ RestoreArchive

SpecProv == Init /\ [][ProvNext]_vars

\* ==================================================================== claims
HdrletNames(f) == {f.hdus[i].hlet.hdrname : i \in HdrletPos(f)}
Usable(h, f) == hverify(h) /\ verify_dest(h, f)

\* C1 (invariant I1): no two archive entries of the container share the same
\* HDRNAME, whatever sequence of operations was called.
C1_UniqueHdrnames ==
    \A i, j \in HdrletPos(fobj) :
        i # j => fobj.hdus[i].hlet.hdrname # fobj.hdus[j].hlet.hdrname

\* C2 (P1): once a headerlet H1 is attached, attaching a valid headerlet of
\* matching origin with the same HDRNAME ends in an error raised to the
\* caller, and attaching one with another HDRNAME succeeds and leaves two
\* archive entries when H1 was the only one.
C2_DuplicateNameRaised ==
    (last.op = "attach_to_file" /\ last.exc = NoExc /\ last.log = NoLog) =>
        \A h2 \in Hlets :
            Usable(h2, fobj) =>
                LET r == attach_to_file(h2, fobj)
                IN IF h2.hdrname = last.arg.h.hdrname
                   THEN r.exc # NoExc
                   ELSE (countExtn(fobj, "HDRLET") = 1
                         /\ h2.hdrname \notin HdrletNames(fobj)) =>
                            /\ r.exc = NoExc
                            /\ countExtn(r.fobj, "HDRLET") = 2

\* C3 (P2): for a headerlet whose DESTIM differs from the ROOTNAME of the
\* container, apply_as_primary (any flags) and attach_to_file end in an
\* error raised to the caller and leave the container unchanged.
C3_OriginMismatchRaised ==
    \A h \in Hlets :
        (hverify(h) /\ ~verify_dest(h, fobj)) =>
            /\ attach_to_file(h, fobj).exc # NoExc
            /\ attach_to_file(h, fobj).fobj = fobj
            /\ \A attach \in BOOLEAN, archive \in BOOLEAN, force \in BOOLEAN :
                  LET r == apply_as_primary(h, fobj, attach, archive, force)
                  IN r.exc # NoExc /\ r.fobj = fobj

\* C4 (P3, refusal): for a valid headerlet of matching origin whose DISTNAME
\* differs from the container's, apply_as_primary with archive=False and
\* force=False raises ValueError and leaves the container (primary WCS,
\* alternates, archive entries, provenance rows) unchanged.
C4_ModelConflictRefused ==
    \A h \in Hlets, attach \in BOOLEAN :
        (Usable(h, fobj) /\ h.distname # fobj.phdr.distname) =>
            LET r == apply_as_primary(h, fobj, attach, FALSE, FALSE)
            IN r.exc = "ValueError" /\ r.fobj = fobj

C4_Witness ==
    /\ last.op = "apply_as_primary" /\ last.exc = "ValueError"
    /\ ~last.arg.archive /\ ~last.arg.force
    /\ Usable(last.arg.h, fobj)
    /\ last.arg.h.distname # fobj.phdr.distname
    /\ countExtn(fobj, "HDRLET") > 0

\* C5 (P3, force): for a valid headerlet of matching origin whose DISTNAME
\* differs from the container's, apply_as_primary with force=True returns
\* without an exception and the container's DISTNAME is then the headerlet's.
C5_ForceSucceeds ==
    \A h \in Hlets, attach \in BOOLEAN, archive \in BOOLEAN :
        (Usable(h, fobj) /\ h.distname # fobj.phdr.distname) =>
            LET r == apply_as_primary(h, fobj, attach, archive, TRUE)
            IN r.exc = NoExc /\ r.fobj.phdr.distname = h.distname

\* C6 (P4 / I4): over sequences of apply_as_primary, apply_as_alternate and
\* restore_from_headerlet calls made with archive=True, a call that returns
\* without refusal leaves a WCSCORR table, every WCSNAME that has been
\* primary has a row in the table once the table exists, and a step that
\* changes the primary WCSNAME of an extension ends with rows for both the
\* displaced and the installed name.
HasRow(f, n) == \E r \in f.wcscorr : r.name = n

WrittenKeys(old, new) ==
    {new.alts[i].key :
        i \in {k \in DOMAIN new.alts :
                    k > Len(old.alts) \/ new.alts[k] # old.alts[k]}}

FreshKeys(f, g) ==
    \A e \in SciExts :
        WrittenKeys(f.sci[e], g.sci[e])
            \cap (wcskeys(f.sci[e]) \cup {ReservedKey}) = {}

RECURSIVE Allocated(_, _)
Allocated(ext, n) ==
    IF n = 0 THEN ext
    ELSE LET prev == Allocated(ext, n - 1)
         IN [prev EXCEPT !.alts =
                Append(@, [key |-> next_wcskey(prev), name |-> "N1",
                           hdrname |-> NONE, lin |-> "N1"])]

C7_KeyAllocation ==
    /\ \A h \in Hlets, attach \in BOOLEAN, wcskey \in AltKeyArgs :
          LET r == apply_as_alternate(h, fobj, attach, wcskey, NONE)
          IN r.exc = NoExc => FreshKeys(fobj, r.fobj)
    /\ \A h \in Hlets, attach \in BOOLEAN, force \in BOOLEAN :
          LET r == apply_as_primary(h, fobj, attach, TRUE, force)
          IN r.exc = NoExc => FreshKeys(fobj, r.fobj)
    /\ \A e \in SciExts : \A i, j \in DOMAIN fobj.sci[e].alts :
          i # j => fobj.sci[e].alts[i].key # fobj.sci[e].alts[j].key
    /\ LET full == Allocated(Sci0(<<>>), 25)
       IN /\ Cardinality(wcskeys(full)) = 25
          /\ NONE \notin wcskeys(full) /\ ReservedKey \notin wcskeys(full)
          /\ next_wcskey(full) = NONE

C9_SameModelArchive ==
    \A h \in Hlets, attach \in BOOLEAN, force \in BOOLEAN :
        LET n1 == fobj.sci[1].wcsname
            r == apply_as_primary(h, fobj, attach, TRUE, force)
        IN (/\ Usable(h, fobj)
            /\ h.distname = fobj.phdr.distname
            /\ PrimaryNames(fobj) = {n1}
            /\ h.hdrname # n1 /\ h.wcsname # n1
            /\ n1 \notin HdrletNames(fobj)) =>
                /\ r.exc = NoExc
                /\ PrimaryNames(r.fobj) = {h.wcsname}
                /\ n1 \in HdrletNames(r.fobj)
                /\ HasRow(r.fobj, n1)

\* C10: delete_headerlet with a selector that matches k >= 1 archive
\* entries returns having removed exactly those entries and the provenance
\* rows carrying their HDRNAME; every other extension, in order, and every
\* other row is still present.
C10_DeleteExactly ==
    \A hdrname \in HdrnameArgs, hdrext \in ExtArgs,
       distname \in {NONE} \cup Models :
        LET found == find_headerlet_HDUs(fobj, hdrext, hdrname, distname,
                                         TRUE)
            pos == {found.ind[i] - NumSci : i \in DOMAIN found.ind}
            gone == {fobj.hdus[i].hlet.hdrname : i \in pos}
            r == delete_headerlet(fobj, hdrname, hdrext, distname)
        IN found.exc = NoExc =>
              /\ r.exc = NoExc
              /\ Len(r.fobj.hdus) = Len(fobj.hdus) - Cardinality(pos)
              /\ \A i \in DOMAIN fobj.hdus :
                    i \notin pos =>
                        r.fobj.hdus[i - Cardinality({j \in pos : j < i})]
                            = fobj.hdus[i]
              /\ \A row \in r.fobj.wcscorr : row.hdrname \notin gone
              /\ \A row \in fobj.wcscorr :
                    row.hdrname \notin gone => row \in r.fobj.wcscorr

\* ------------------------------------------------------- selectors (claims)
\* every selector of delete_headerlet, tuples included
DeleteExtArgs == ExtArgs \cup {TupleExt(1), TupleExt(2)}

\* the entries (positions in f.hdus) that one given selector picks out
ByName(f, hdrname) ==
    {k \in HdrletPos(f) : hdrname # NONE /\ f.hdus[k].hlet.hdrname = hdrname}
ByModel(f, distname) ==
    {k \in HdrletPos(f) :
        distname # NONE /\ f.hdus[k].hlet.distname = distname}
ByExt(f, hdrext) ==
    {k \in HdrletPos(f) :
        \/ hdrext.kind = "int" /\ hdrext.num = NumSci + k
        \/ hdrext.kind = "tuple" /\ hdrext.num = f.hdus[k].extver}

\* the entries that satisfy every selector given (at least one is given)
Matching(f, hdrname, hdrext) ==
    {k \in HdrletPos(f) :
        /\ hdrname # NONE \/ hdrext.kind # "none"
        /\ hdrname # NONE => k \in ByName(f, hdrname)
        /\ hdrext.kind # "none" => k \in ByExt(f, hdrext)}

C12_ExtractByName ==
    \A byName \in BOOLEAN, hdrname \in FindNameArgs :
        Cardinality(ByName(fobj, hdrname)) = 1 =>
            LET k == CHOOSE i \in ByName(fobj, hdrname) : TRUE
                r == extract_headerlet(fobj, byName, NoExt, hdrname)
                both == extract_headerlet(fobj, byName, IntExt(NumSci + k),
                                          hdrname)
            IN /\ r.exc = NoExc
               /\ r.file = tofile(fobj.hdus[k].hlet, NONE, NONE).file
               /\ both.exc = NoExc

\* C13: extract_headerlet given a hdrname that more than one archive entry
\* carries, and no extnum, raises ValueError (AmbiguousSelector) and writes
\* no file; it does not write the first of the matching entries.
C13_ExtractAmbiguous ==
    \A byName \in BOOLEAN, hdrname \in FindNameArgs :
        Cardinality(ByName(fobj, hdrname)) > 1 =>
            LET r == extract_headerlet(fobj, byName, NoExt, hdrname)
            IN r.exc = "ValueError" /\ r.file = NoFile

C13_Witness ==
    /\ last.op = "extract_headerlet" /\ last.exc = "ValueError"
    /\ last.arg.extnum = NoExt
    /\ last.arg.file = NoFile
    /\ Cardinality(ByName(fobj, last.arg.hdrname)) > 1

\* C14: extract_headerlet given no valid hdrname (None, '', ' ', 'INDEF')
\* and no extnum raises ValueError and writes no file, whether the
\* container is given as a file name or as an open HDUList.
C14_ExtractNoSelector ==
    \A byName \in BOOLEAN, hdrname \in {NONE, "", " ", "INDEF"} :
        LET r == extract_headerlet(fobj, byName, NoExt, hdrname)
        IN r.exc = "ValueError" /\ r.file = NoFile

\* C15: find_headerlet_HDUs with hdrext, hdrname and distname all None
\* raises ValueError when strict is true, and when strict is false returns
\* the indices of all the archive entries of the container and of no other
\* extension.
C15_FindAll ==
    /\ find_headerlet_HDUs(fobj, NoExt, NONE, NONE, TRUE).exc = "ValueError"
    /\ LET r == find_headerlet_HDUs(fobj, NoExt, NONE, NONE, FALSE)
       IN /\ r.exc = NoExc
          /\ Range(r.ind) = {NumSci + k : k \in HdrletPos(fobj)}

\* C16: attach_to_file of a valid headerlet of matching origin whose HDRNAME
\* no archive entry carries returns having appended exactly one archive
\* entry, holding the headerlet, after the entries already there; the
\* provenance table then has a row that is not active for every part of the
\* headerlet and every row it had before; the primary header and the SCI
\* extensions (primary WCS, alternate keys and their contents) are unchanged.
Entries(f) == SelectSeq(f.hdus, LAMBDA x : x.extname = "HDRLET")

C16_AttachFrame ==
    \A h \in Hlets :
        (Usable(h, fobj) /\ verify_hdrname(h, fobj)) =>
            LET r == attach_to_file(h, fobj)
                new == Entries(r.fobj)
            IN /\ r.exc = NoExc /\ r.log = NoLog
               /\ Len(new) = Len(Entries(fobj)) + 1
               /\ SubSeq(new, 1, Len(new) - 1) = Entries(fobj)
               /\ new[Len(new)].hlet = h
               /\ \A i \in DOMAIN h.sipwcs :
                     \E row \in r.fobj.wcscorr :
                        /\ row.extver = h.sipwcs[i].extver
                        /\ row.hdrname = h.hdrname
                        /\ row.distname = h.distname
                        /\ ~row.active
               /\ \A row \in r.fobj.wcscorr :
                     row.hdrname = h.hdrname /\ row \notin fobj.wcscorr
                        => ~row.active
               /\ fobj.wcscorr \subseteq r.fobj.wcscorr
               /\ r.fobj.sci = fobj.sci
               /\ r.fobj.phdr = fobj.phdr

C16_Witness ==
    /\ last.op = "attach_to_file" /\ last.exc = NoExc /\ last.log = NoLog
    /\ Cardinality(ByName(fobj, last.arg.h.hdrname)) = 1
    /\ countExtn(fobj, "HDRLET") = 2
    /\ \E row \in fobj.wcscorr :
          row.hdrname = last.arg.h.hdrname /\ ~row.active
    /\ fobj.sci[NumSci].alts # <<>>

\* C17: apply_as_alternate called without a key (wcskey None) on a valid
\* headerlet of matching origin and model returns without an exception
\* having written the headerlet's WCS under the smallest alternate key that
\* was free on the destination extension.
C17_DefaultKeyAllocated ==
    \A h \in AltHlets, attach \in BOOLEAN :
        (/\ Usable(h, fobj)
         /\ h.distname = fobj.phdr.distname
         /\ fobj.phdr.distname # "UNKNOWN"
         /\ next_wcskey(fobj.sci[1]) # NONE) =>
            LET r == apply_as_alternate(h, fobj, attach, NONE, NONE)
                key == next_wcskey(fobj.sci[1])
            IN /\ r.exc = NoExc
               /\ \E i \in DOMAIN r.fobj.sci[1].alts :
                     /\ r.fobj.sci[1].alts[i].key = key
                     /\ r.fobj.sci[1].alts[i].lin = Part(h, 1).lin

\* C18: apply_as_alternate of a valid headerlet of matching origin under a
\* key free on the destination extension raises ValueError
\* (DistortionModelConflict) exactly when the DISTNAME of the headerlet and
\* of the container are different strings, and then no SCI extension is
\* changed.
C18_AlternateModelCheck ==
    \A h \in AltHlets, attach \in BOOLEAN, wcskey \in AltKeyArgs \ {NONE} :
        (/\ Usable(h, fobj)
         /\ wcskey \in Range(available_wcskeys(fobj.sci[1]))) =>
            LET r == apply_as_alternate(h, fobj, attach, wcskey, NONE)
            IN /\ (r.exc = "ValueError")
                    <=> (h.distname # fobj.phdr.distname)
               /\ r.exc = "ValueError" => r.fobj.sci = fobj.sci

\* C19: restore_from_headerlet of the one entry that carries hdrname raises
\* ValueError (DistortionModelConflict) exactly when the DISTNAME of the
\* entry differs from the container's and archive and force are both false;
\* with a differing DISTNAME, archive=True and force=False it returns
\* without an exception with the WCS of the entry as primary.
C19_RestoreModelCheck ==
    \A hdrname \in FindNameArgs, archive \in BOOLEAN, force \in BOOLEAN :
        Cardinality(ByName(fobj, hdrname)) = 1 =>
            LET k == CHOOSE i \in ByName(fobj, hdrname) : TRUE
                entry == fobj.hdus[k].hlet
                differs == entry.distname # fobj.phdr.distname
                r == restore_from_headerlet(fobj, hdrname, NoExt, archive,
                                            force)
            IN /\ (r.exc = "ValueError")
                    <=> (differs /\ ~archive /\ ~force)
               /\ (differs /\ archive /\ ~force) =>
                     /\ r.exc = NoExc
                     /\ PrimaryNames(r.fobj) = {entry.wcsname}

C21_RestoreAll ==
    \A distname \in Models, primary \in PrimaryArgs, archive \in BOOLEAN :
        LET match == ByModel(fobj, distname)
            pri == IF primary.kind = "int" THEN {primary.num - NumSci}
                   ELSE IF primary.kind = "name"
                   THEN ByName(fobj, primary.name)
                   ELSE {CHOOSE k \in match : \A j \in match : k <= j}
            r == restore_all_with_distname(fobj, distname, primary, archive)
        IN (/\ Cardinality(match) >= 2
            /\ Cardinality(pri) = 1 /\ pri \subseteq match
            /\ \A k \in match : Usable(fobj.hdus[k].hlet, fobj)
            /\ distname = fobj.phdr.distname
            /\ Len(fobj.sci[1].alts) + Cardinality(match) <= 25) =>
              /\ r.exc = NoExc
              /\ \A k \in match :
                    IF k \in pri
                    THEN fobj.hdus[k].hlet.wcsname \in PrimaryNames(r.fobj)
                    ELSE \E i \in DOMAIN r.fobj.sci[1].alts :
                            r.fobj.sci[1].alts[i].name
                                = fobj.hdus[k].hlet.wcsname

\* C22: restore_all_with_distname raises ValueError (ModelMismatch) and
\* leaves the container unchanged whenever the entry designated as primary,
\* by index or by name, has a DISTNAME other than the one given.
C22_RestoreAllMismatch ==
    \A distname \in Models, primary \in PrimaryArgs, archive \in BOOLEAN :
        LET pri == IF primary.kind = "int"
                   THEN {primary.num - NumSci} \cap HdrletPos(fobj)
                   ELSE ByName(fobj, primary.name)
            r == restore_all_with_distname(fobj, distname, primary, archive)
        IN (/\ primary.kind # "none"
            /\ pri # {}
            /\ \A k \in pri : fobj.hdus[k].hlet.distname # distname) =>
              r.exc = "ValueError" /\ r.fobj = fobj

C22_Witness ==
    /\ last.op = "restore_all_with_distname" /\ last.exc = "ValueError"
    /\ last.arg.primary.kind = "int"
    /\ last.arg.primary.num - NumSci \in HdrletPos(fobj)
    /\ fobj.hdus[last.arg.primary.num - NumSci].hlet.distname
            # last.arg.distname
    /\ ByModel(fobj, last.arg.distname) # {}

\* C23: create_headerlet called without a wcsname raises KeyError exactly
\* when no hdrname is supplied and the header has neither HDRNAME<key> nor
\* WCSNAME<key>; a headerlet made without a supplied hdrname is named after
\* HDRNAME<key> if present and after WCSNAME<key> otherwise; called with a
\* wcsname that is not the WCSNAME<key> of the header it raises an error.
C23_CreateNames ==
    \A hdrname \in {NONE, "", "N2"}, wcskey \in {" ", "A", "B"},
       wcsname \in {NONE, "N1", "N3"} :
        LET hdr == fobj.sci[1]
            r == create_headerlet(fobj, hdrname, wcskey, wcsname)
        IN /\ wcsname = NONE =>
                ((r.exc = "KeyError") <=>
                    (/\ hdrname \in {NONE, ""}
                     /\ KwHdrname(hdr, wcskey) = NONE
                     /\ KwWcsname(hdr, wcskey) = NONE))
           /\ (r.exc = NoExc /\ r.hlet # NoHlet /\ hdrname \in {NONE, ""}) =>
                r.hlet.hdrname =
                    IF KwHdrname(hdr, wcskey) # NONE
                    THEN KwHdrname(hdr, wcskey) ELSE KwWcsname(hdr, wcskey)
           /\ (r.exc = NoExc /\ r.hlet # NoHlet /\ hdrname = "N2") =>
                r.hlet.hdrname = "N2"
           /\ (wcsname # NONE /\ KwWcsname(hdr, wcskey) # wcsname) =>
                r.exc # NoExc

C23_Witness ==
    /\ last.op = "create_headerlet" /\ last.exc = NoExc
    /\ last.arg.hdrname = NONE /\ last.arg.wcsname = NONE
    /\ last.arg.wcskey = "A"
    /\ KwHdrname(fobj.sci[1], "A") = NONE
    /\ last.arg.hlet.hdrname = KwWcsname(fobj.sci[1], "A")

\* C24: create_headerlet, write_headerlet and archive_as_headerlet called
\* with the name of a WCS of the first SCI extension and wcskey=None return
\* without an exception, the headerlet made holding the WCS of that name.
C24_SelectByName ==
    \A wcsname \in wcsnames(fobj.sci[1]), hdrname \in HdrnameArgs,
       attach \in BOOLEAN :
        /\ create_headerlet(fobj, hdrname, NONE, wcsname).exc = NoExc
        /\ create_headerlet(fobj, hdrname, NONE, wcsname).hlet.wcsname
                = wcsname
        /\ write_headerlet(fobj, hdrname, wcsname, NONE, attach).exc = NoExc
        /\ archive_as_headerlet(fobj, hdrname, wcsname, NONE).exc = NoExc

\* C25: a call of apply_as_primary, apply_as_alternate, attach_to_file,
\* restore_from_headerlet or restore_all_with_distname that ends in a
\* precondition failure (ValueError or AssertionError raised, or the refusal
\* for origin or name reported) leaves the container as it was.
Refused(r) == r.exc \in {"ValueError", "AssertionError"}

C25_NoMutationOnFailure ==
    /\ \A h \in Hlets, attach \in BOOLEAN, archive \in BOOLEAN,
          force \in BOOLEAN :
          LET r == apply_as_primary(h, fobj, attach, archive, force)
          IN (Refused(r) \/ r.log = "cannot be updated") => r.fobj = fobj
    /\ \A h \in AltHlets, attach \in BOOLEAN, wcskey \in AltKeyArgs :
          LET r == apply_as_alternate(h, fobj, attach, wcskey, NONE)
          IN (Refused(r) \/ r.log = "cannot be updated") => r.fobj = fobj
    /\ \A h \in Hlets :
          LET r == attach_to_file(h, fobj)
          IN (Refused(r) \/ r.log # NoLog) => r.fobj = fobj
    /\ \A hdrname \in FindNameArgs, hdrext \in RestoreExtArgs,
          archive \in BOOLEAN, force \in BOOLEAN :
          LET r == restore_from_headerlet(fobj, hdrname, hdrext, archive,
                                          force)
          IN Refused(r) => r.fobj = fobj
    /\ \A distname \in Models, primary \in PrimaryArgs, archive \in BOOLEAN :
          LET r == restore_all_with_distname(fobj, distname, primary,
                                             archive)
          IN Refused(r) => r.fobj = fobj

\* C26: after every call of an operation that opens the container in update
\* mode, whatever way the call ended, the handle it opened is closed.
C26_HandleClosed ==
    last.op \in {"apply_as_primary", "apply_as_alternate", "attach_to_file",
                 "delete_headerlet", "restore_from_headerlet",
                 "restore_all_with_distname", "archive_as_headerlet",
                 "write_headerlet"} => ~handleOpen

\* C27: verify_dest returns, without raising, TRUE exactly when DESTIM of
\* the headerlet equals ROOTNAME of the destination, or the destination's
\* name when it has no ROOTNAME, for a file name and for an open HDUList.
C27_VerifyDest ==
    \A h \in Hlets, byName \in BOOLEAN, fname \in FileNames,
       rootname \in {fobj.phdr.rootname, NONE} :
        LET r == verify_dest_any(h, byName, fname, rootname)
        IN /\ r.exc = NoExc
           /\ r.val <=> (h.destim = IF rootname # NONE THEN rootname
                                    ELSE FileRoot(fname))

\* C28: a headerlet whose DESTIM or HDRNAME is missing or blank, or that
\* lacks UPWCSVER, fails hverify, and apply_as_primary, apply_as_alternate
\* and attach_to_file then raise AssertionError with the container
\* unchanged.
MalformedHlets ==
    {BadHlet,
     [MkHlet("N2", Rootname, "M1") EXCEPT !.destim = " "],
     [MkHlet("N2", Rootname, "M1") EXCEPT !.destim = ""],
     [MkHlet("N2", Rootname, "M1") EXCEPT !.hdrname = " "]}

WellFormed(h) ==
    /\ h.destim \notin {NONE, "", " "}
    /\ h.hdrname \notin {NONE, "", " "}
    /\ h.upwcsver

C28_MalformedRefused ==
    \A h \in AltHlets \cup MalformedHlets :
        /\ hverify(h) <=> WellFormed(h)
        /\ ~WellFormed(h) =>
            /\ \A attach \in BOOLEAN, archive \in BOOLEAN, force \in BOOLEAN :
                  LET r == apply_as_primary(h, fobj, attach, archive, force)
                  IN r.exc = "AssertionError" /\ r.fobj = fobj
            /\ \A attach \in BOOLEAN, wcskey \in AltKeyArgs :
                  LET r == apply_as_alternate(h, fobj, attach, wcskey, NONE)
                  IN r.exc = "AssertionError" /\ r.fobj = fobj
            /\ LET r == attach_to_file(h, fobj)
               IN r.exc = "AssertionError" /\ r.fobj = fobj

C28_Witness ==
    /\ last.op \in {"apply_as_primary", "apply_as_alternate",
                    "attach_to_file"}
    /\ last.exc = "AssertionError"
    /\ ~WellFormed(last.arg.h)
    /\ countExtn(fobj, "HDRLET") > 0

\* C29: apply_as_primary with archive=True of a valid headerlet of matching
\* origin and of the container's model, when it returns, has copied the
\* outgoing primary WCS of every SCI extension under a key that was free on
\* that extension, and every alternate WCS that existed before the call is
\* still there under its key with its contents.
C29_ArchiveKeepsAlternates ==
    \A h \in Hlets, attach \in BOOLEAN, force \in BOOLEAN :
        LET r == apply_as_primary(h, fobj, attach, TRUE, force)
        IN (/\ Usable(h, fobj)
            /\ h.distname = fobj.phdr.distname
            /\ r.exc = NoExc) =>
              \A e \in SciExts :
                /\ \E i \in DOMAIN r.fobj.sci[e].alts :
                      /\ r.fobj.sci[e].alts[i].key
                            \notin wcskeys(fobj.sci[e])
                      /\ r.fobj.sci[e].alts[i].lin = fobj.sci[e].lin
                /\ \A i \in DOMAIN fobj.sci[e].alts :
                      \E j \in DOMAIN r.fobj.sci[e].alts :
                         r.fobj.sci[e].alts[j] = fobj.sci[e].alts[i]

\* C30: apply_as_primary with archive=True and force=True of a valid
\* headerlet of matching origin and of another model, on a container with
\* an alternate WCS that has no archive entry, returns with an archive entry
\* for every WCS name, primary or alternate, that a SCI extension carried
\* before the call.
C30_ForceArchivesAlternates ==
    \A h \in Hlets, attach \in BOOLEAN :
        LET r == apply_as_primary(h, fobj, attach, TRUE, TRUE)
        IN (/\ Usable(h, fobj) /\ h.distname # fobj.phdr.distname
            /\ \E e \in SciExts : \E i \in DOMAIN fobj.sci[e].alts :
                  fobj.sci[e].alts[i].name \notin HdrletNames(fobj)) =>
              /\ r.exc = NoExc
              /\ \A e \in SciExts :
                    wcsnames(fobj.sci[e]) \subseteq HdrletNames(r.fobj)

\* C31: apply_as_primary of a valid headerlet of matching origin and of
\* another model (force=True) leaves on every SCI extension no alternate WCS
\* but one under the reserved key 'O', whatever keys each extension carried,
\* and keeps every alternate WCS stored under 'O'; the same holds of
\* _remove_alt_WCS alone.
OnlyReservedLeft(before, after) ==
    \A e \in SciExts :
        /\ wcskeys(after.sci[e]) \subseteq {ReservedKey}
        /\ \A i \in DOMAIN before.sci[e].alts :
              before.sci[e].alts[i].key = ReservedKey =>
                 \E j \in DOMAIN after.sci[e].alts :
                    after.sci[e].alts[j] = before.sci[e].alts[i]

C31_AlternatesStripped ==
    /\ OnlyReservedLeft(fobj, _remove_alt_WCS(fobj))
    /\ \A h \in Hlets, attach \in BOOLEAN, archive \in BOOLEAN :
          (Usable(h, fobj) /\ h.distname # fobj.phdr.distname) =>
              OnlyReservedLeft(fobj,
                  apply_as_primary(h, fobj, attach, archive, TRUE).fobj)

\* C32 (invariant I3): after every apply_as_primary and
\* restore_from_headerlet call, returned or raised, the distortion
\* components (SIP, NPOL, D2IM) of all SCI extensions belong to one model
\* and none is missing beside a linear WCS that is still there.
OneModel(f) ==
    \E m \in Models \cup {"UNKNOWN", NONE} :
        \A e \in SciExts :
            /\ f.sci[e].sip = m /\ f.sci[e].lut = m /\ f.sci[e].d2im = m
            /\ m = NONE => f.sci[e].lin = NONE

C32_ModelNeverMixed ==
    last.op \in {"apply_as_primary", "restore_from_headerlet"} =>
        OneModel(fobj)

\* C33: apply_as_primary with attach=True of a valid headerlet of matching
\* origin and of the container's model, whose HDRNAME an archive entry
\* already carries, returns without an exception with the headerlet's WCS as
\* primary, reports the collision, and adds no entry of that HDRNAME.
NamedEntries(f, hdrname) ==
    Cardinality({k \in HdrletPos(f) : f.hdus[k].hlet.hdrname = hdrname})

Installed(h, r, before) ==
    /\ r.exc = NoExc
    /\ r.log = "hdrname"
    /\ PrimaryNames(r.fobj) = {h.wcsname}
    /\ NamedEntries(r.fobj, h.hdrname) = NamedEntries(before, h.hdrname)

KeysInUse(f) == UNION {wcskeys(f.sci[e]) : e \in SciExts}

Rejected(r, before) ==
    r.exc # NoExc /\ \A e \in SciExts : r.fobj.sci[e] = before.sci[e]

C34_KeyInUseRefused ==
    \A h \in AltHlets, attach \in BOOLEAN,
       wcskey \in KeysInUse(fobj) \cup {ReservedKey} :
        (/\ Usable(h, fobj)
         /\ h.distname = fobj.phdr.distname
         /\ fobj.phdr.distname # "UNKNOWN") =>
            Rejected(apply_as_alternate(h, fobj, attach, wcskey, NONE), fobj)

\* C35: every call of apply_as_primary, apply_as_alternate, attach_to_file,
\* restore_from_headerlet, restore_all_with_distname and delete_headerlet
\* that returns without an exception and without a refusal has written the
\* container to its file, for a file name and for an open handle.
Done(r) == r.exc = NoExc /\ r.log = NoLog

C35_Flushed ==
    \A close_dest \in BOOLEAN :
        /\ \A h \in Hlets, attach \in BOOLEAN, archive \in BOOLEAN :
              LET r == apply_as_primary(h, fobj, attach, archive, FALSE)
              IN Done(r) => apply_as_primary_flushed(h, fobj, close_dest, r)
        /\ \A h \in AltHlets, wcskey \in AltKeyArgs :
              LET r == apply_as_alternate(h, fobj, FALSE, wcskey, NONE)
              IN Done(r) => apply_as_alternate_flushed(close_dest, r)
        /\ \A h \in Hlets :
              LET r == attach_to_file(h, fobj)
              IN Done(r) => attach_to_file_flushed(close_dest, r)
        /\ \A hdrname \in HdrnameArgs, hdrext \in ExtArgs :
              LET r == delete_headerlet(fobj, hdrname, hdrext, NONE)
              IN Done(r) => delete_headerlet_flushed(r)
        /\ \A hdrname \in HdrnameArgs, hdrext \in ExtArgs :
              LET r == restore_from_headerlet(fobj, hdrname, hdrext, FALSE,
                                              FALSE)
              IN Done(r) => restore_from_headerlet_flushed(r)
        /\ \A distname \in Models, primary \in PrimaryArgs :
              LET r == restore_all_with_distname(fobj, distname, primary,
                                                 FALSE)
              IN Done(r) => restore_all_with_distname_flushed(r)

\* C36: the DISTNAME create_headerlet builds is made of the three component
\* names, each the one the caller supplied or, for None and '', the one the
\* container gives ('NOMODEL' for an absent component), so that equal
\* container components and equal overrides give equal DISTNAMEs.
NameArgs == {NONE, "", "X1"}

Resolved(name, c) ==
    IF name \in {NONE, ""} THEN (IF c = NONE THEN "NOMODEL" ELSE c)
    ELSE name

C37_ExtverDistinct ==
    \A i \in HdrletPos(fobj), j \in HdrletPos(fobj) :
        i # j => fobj.hdus[i].extver # fobj.hdus[j].extver

\* C38: find_headerlet_HDUs with an hdrext tuple, hdrname or distname
\* returns the entries matching any of the selectors given, and raises
\* ValueError when there is none; with an integer hdrext it returns at most
\* that position, whatever hdrname and distname are.
FindExtArgs == {NoExt, IntExt(NumSci + 1), IntExt(NumSci + 2), TupleExt(1),
                TupleExt(2)}

C39_CreatedPassesVerifyDest ==
    \A byName \in BOOLEAN, fname \in FileNames,
       rootname \in {fobj.phdr.rootname, NONE} :
        LET h == [MkHlet("N2", create_destim(rootname, fname), "M1")
                    EXCEPT !.distname = build_distname(fobj)]
            r == verify_dest_any(h, byName, fname, rootname)
        IN r.exc = NoExc /\ r.val

====
